---- MODULE Spec2Model ----
(***************************************************************************)
(* svlmd: the changelog merge of sync_version (src/main.rs) and the page   *)
(* store LogseqPage / FileManager (src/file_manager.rs).                   *)
(*                                                                         *)
(* Strings are TLA+ strings; a contents entry is the pair <<line, indent>> *)
(* of the Rust Vec<(String, u8)>.  Indices are 0-based as in the source;   *)
(* None is the Option::None of a position() that found nothing.            *)
(***************************************************************************)
EXTENDS Integers, Naturals, Sequences, FiniteSets, TLC

VARIABLES
    file,           \* pages/1.0.0.md: <<>> while it does not exist, else <<its text>>
    version_file,   \* pages/Version.md, likewise
    page,           \* page.contents as the last run read it (main.rs:154)
    page_properties, \* page.properties as the last run read them
    changed_pages,  \* the change-set of the last run (main.rs:122)
    result,         \* page.contents as the last run wrote it (main.rs:303)
    status,         \* "init", or how the last run ended: "done" or "panic"
    runs,           \* the number of runs so far
    outline_in,     \* a contents sequence handed to write_page
    outline,        \* the content block write_page renders of it
    reparsed,       \* the contents from_plain parses of the block
    again,          \* the content block write_page renders of the parsed contents
    title,          \* a page title
    path,           \* the path of its file below the root (title_to_path)
    back,           \* the page name get_changed_pages derives of the path
    spaces,         \* the number of leading spaces of a line
    plain,          \* the line, as plain text
    level           \* the indent level from_plain gives the line

syncVars == <<file, version_file, page, page_properties, changed_pages, result, runs>>
outlineVars == <<outline_in, outline, reparsed, again>>
titleVars == <<title, path, back>>
indentVars == <<spaces, plain, level>>
vars == <<syncVars, outlineVars, titleVars, indentVars, status>>

(***************************************************************************)
(* Characters and strings (Rust str primitives)                            *)
(***************************************************************************)
None == -1

\* the printable ASCII characters in byte order, in runs that leave out the
\* double quote (34), the backslash (92) and the backtick (96)
AsciiFrom32 == " !"
AsciiFrom35 == "#$%&'()*+,-./0123456789:;<=>?@ABCDEFGHIJKLMNOPQRSTUVWXYZ["
AsciiFrom93 == "]^_"
AsciiFrom97 == "abcdefghijklmnopqrstuvwxyz{|}~"

IndexIn(run, ch) == CHOOSE i \in 1..Len(run) : SubSeq(run, i, i) = ch
InRun(run, ch) == \E i \in 1..Len(run) : SubSeq(run, i, i) = ch

\* the byte of a one-character string (String's Ord compares bytes)
Ord(ch) ==
    IF ch = "\n" THEN 10
    ELSE IF ch = "\r" THEN 13
    ELSE IF ch = "\t" THEN 9
    ELSE IF InRun(AsciiFrom32, ch) THEN 31 + IndexIn(AsciiFrom32, ch)
    ELSE IF InRun(AsciiFrom35, ch) THEN 34 + IndexIn(AsciiFrom35, ch)
    ELSE IF InRun(AsciiFrom93, ch) THEN 92 + IndexIn(AsciiFrom93, ch)
    ELSE 96 + IndexIn(AsciiFrom97, ch)

CharAt(s, i) == SubSeq(s, i, i)

\* s[a..b] of a str or a slice, 0-based and half-open
Slice(s, a, b) == SubSeq(s, a + 1, b)

\* str::starts_with
StartsWith(s, p) == Len(s) >= Len(p) /\ SubSeq(s, 1, Len(p)) = p

\* str::find: the 0-based index of the first occurrence of p in s, or None
Find(s, p) ==
    LET hits == {i \in 0..(Len(s) - Len(p)) : Slice(s, i, i + Len(p)) = p}
    IN  IF hits = {} THEN None ELSE CHOOSE i \in hits : \A j \in hits : i <= j

\* str::contains
Contains(s, p) == Find(s, p) # None

\* char::is_whitespace, on the characters of the model
IsWhitespace(ch) == ch \in {" ", "\t", "\n", "\r"}

\* str::trim
Trim(s) ==
    LET keep == {i \in 1..Len(s) : ~IsWhitespace(CharAt(s, i))}
    IN  IF keep = {} THEN ""
        ELSE SubSeq(s, CHOOSE i \in keep : \A j \in keep : i <= j,
                       CHOOSE i \in keep : \A j \in keep : i >= j)

\* str::replacen(from, to, 1): only the first occurrence is replaced
ReplaceFirst(s, from, to) ==
    LET i == Find(s, from)
    IN  IF i = None THEN s
        ELSE Slice(s, 0, i) \o to \o Slice(s, i + Len(from), Len(s))

\* str::replace: every non-overlapping occurrence, left to right
RECURSIVE Replace(_, _, _)
Replace(s, from, to) ==
    LET i == Find(s, from)
    IN  IF i = None THEN s
        ELSE Slice(s, 0, i) \o to
             \o Replace(Slice(s, i + Len(from), Len(s)), from, to)

\* str::repeat
RECURSIVE Repeat(_, _)
Repeat(s, n) ==
    IF n = 0 THEN ""
    ELSE LET half == Repeat(s, n \div 2)
         IN  IF n % 2 = 0 THEN half \o half ELSE half \o half \o s

\* str::lines: split at "\n", a trailing "\r" of a line dropped, no last
\* empty line after a final "\n"
StripCr(l) ==
    IF Len(l) > 0 /\ CharAt(l, Len(l)) = "\r" THEN SubSeq(l, 1, Len(l) - 1) ELSE l

RECURSIVE Lines(_)
Lines(s) ==
    IF s = "" THEN <<>>
    ELSE LET i == Find(s, "\n")
         IN  IF i = None THEN <<StripCr(s)>>
             ELSE <<StripCr(Slice(s, 0, i))>> \o Lines(Slice(s, i + 1, Len(s)))

\* [String]::join
RECURSIVE Join(_, _)
Join(ls, sep) ==
    IF Len(ls) = 0 THEN ""
    ELSE IF Len(ls) = 1 THEN ls[1]
    ELSE ls[1] \o sep \o Join(Tail(ls), sep)

\* String's Ord: byte-wise lexicographic order
RECURSIVE StrLess(_, _)
StrLess(a, b) ==
    IF Len(b) = 0 THEN FALSE
    ELSE IF Len(a) = 0 THEN TRUE
    ELSE IF CharAt(a, 1) = CharAt(b, 1) THEN StrLess(Tail(a), Tail(b))
    ELSE Ord(CharAt(a, 1)) < Ord(CharAt(b, 1))

\* Vec<String>::sort
RECURSIVE InsertSorted(_, _)
InsertSorted(x, s) ==
    IF Len(s) = 0 THEN <<x>>
    ELSE IF StrLess(x, s[1]) THEN <<x>> \o s
    ELSE <<s[1]>> \o InsertSorted(x, Tail(s))

\* a sort that leaves the order as it is
SortLeftOut(s) == s

RECURSIVE Sort(_)
Sort(s) == IF Len(s) = 0 THEN <<>> ELSE InsertSorted(s[1], Sort(Tail(s)))

\* Vec::dedup: consecutive equal elements collapse to the first
RECURSIVE Dedup(_)
Dedup(s) ==
    IF Len(s) <= 1 THEN s
    ELSE IF s[1] = s[2] THEN Dedup(Tail(s))
    ELSE <<s[1]>> \o Dedup(Tail(s))

\* Iterator::position: the 0-based index of the first element with P, or None
Position(s, P(_)) ==
    LET hits == {i \in 1..Len(s) : P(s[i])}
    IN  IF hits = {} THEN None
        ELSE (CHOOSE i \in hits : \A j \in hits : i <= j) - 1

\* Iterator::map
Map(s, F(_)) == [i \in 1..Len(s) |-> F(s[i])]

(***************************************************************************)
(* The page store: LogseqPage (src/file_manager.rs)                        *)
(***************************************************************************)
\* count_indentation: the leading spaces, cast to u8, divided by 4
\* line.chars().take_while(|c| *c == ' ').count()
LeadingSpaces(line) ==
    LET other == {i \in 1..Len(line) : CharAt(line, i) # " "}
    IN  IF other = {} THEN Len(line)
        ELSE (CHOOSE i \in other : \A j \in other : i <= j) - 1

count_indentation(line) == (LeadingSpaces(line) % 256) \div 4

\* the closure of from_plain: one line to its (text, indent) entry
PlainEntry(line) ==
    <<ReplaceFirst(Trim(line), "- ", ""), count_indentation(line)>>

\* LogseqPage::from_plain, the contents it builds
from_plain(contents) == Map(Lines(contents), PlainEntry)

\* write_page, one contents entry
WriteEntry(e) ==
    IF e[1] = "" THEN "\n"
    ELSE Repeat("    ", e[2]) \o "- " \o e[1] \o "\n"

\* write_page, the content block
RECURSIVE WriteContents(_)
WriteContents(contents) ==
    IF Len(contents) = 0 THEN ""
    ELSE WriteEntry(contents[1]) \o WriteContents(Tail(contents))

\* write_page, the property header
RECURSIVE WriteProperties(_)
WriteProperties(properties) ==
    IF Len(properties) = 0 THEN ""
    ELSE properties[1][1] \o ":: " \o properties[1][2] \o "\n"
         \o WriteProperties(Tail(properties))

\* LogseqPage::write_page: the text the file holds afterwards
write_page(properties, contents) ==
    WriteProperties(properties) \o "\n" \o WriteContents(contents)

\* the closure of read_page: a header line split at "::" into (key, value)
PropertyOf(line) ==
    LET i == Find(line, "::")
        rest == Slice(line, i + 2, Len(line))
        j == Find(rest, "::")
    IN  <<Slice(line, 0, i), Trim(IF j = None THEN rest ELSE Slice(rest, 0, j))>>

\* LogseqPage::read_page of a file holding `data`
read_page(data) ==
    LET lines == Lines(data)
        NoColons(l) == ~Contains(l, "::")
        at == Position(lines, NoColons)
        properties_end == IF at = None THEN 0 ELSE at
    IN  [properties |-> Map(Slice(lines, 0, properties_end), PropertyOf),
         contents |-> from_plain(Join(Slice(lines, properties_end, Len(lines)), "\n"))]

(***************************************************************************)
(* sync_version (src/main.rs): the changelog merge                         *)
(***************************************************************************)
\* format!("## [[{}]]", version)
full_version_string(version) == "## [[" \o version \o "]]"

\* format!("[[{}]]", p)
Wrap(p) == "[[" \o p \o "]]"

IsChangedPages(e) == e[1] = "# Changed Pages"
IsVersionEntry(e) == StartsWith(e[1], "## [[") /\ e[2] = 1

changed_pages_index(contents) ==
    LET at == Position(contents, IsChangedPages)
    IN  IF at = None THEN 0 ELSE at

latest_version_index(contents) ==
    LET from == changed_pages_index(contents)
        pos == Position(Slice(contents, from, Len(contents)), IsVersionEntry)
    IN  IF pos = None THEN None ELSE pos + from

\* an extent that always runs to the end of the contents
NextVersionNeverFound(contents, idx) == Len(contents)

next_version_index(contents, idx) ==
    LET pos == Position(Slice(contents, idx + 1, Len(contents)), IsVersionEntry)
    IN  IF pos = None THEN Len(contents) ELSE pos + idx + 1

\* the latest version entry exists and is the one of the current version
MatchesCurrent(contents, version) ==
    LET idx == latest_version_index(contents)
    IN  idx # None /\ contents[idx + 1][1] = full_version_string(version)

IsChangeLine(e) == StartsWith(e[1], "### ") \/ StartsWith(e[1], "[[")

existing_changes(contents, version) ==
    IF MatchesCurrent(contents, version)
    THEN LET idx == latest_version_index(contents)
         IN  SelectSeq(Slice(contents, idx, next_version_index(contents, idx)),
                       IsChangeLine)
    ELSE <<>>

\* page.contents after the drain of the existing entry
Drained(contents, version) ==
    IF MatchesCurrent(contents, version)
    THEN LET idx == latest_version_index(contents)
         IN  Slice(contents, 0, idx)
             \o Slice(contents, next_version_index(contents, idx), Len(contents))
    ELSE contents

IsLeaf(e) == e[2] = 3 /\ StartsWith(e[1], "[[")
IsAdded(e) == e[2] = 2 /\ e[1] = "### Added"
IsModified(e) == e[2] = 2 /\ e[1] = "### Modified"
IsDeleted(e) == e[2] = 2 /\ e[1] = "### Deleted"
IsIndentOne(e) == e[2] = 1

AddedEnd(ec) ==
    LET m == Position(ec, IsModified)
    IN  IF m # None THEN m ELSE Position(ec, IsDeleted)

ModifiedEnd(ec) ==
    LET d == Position(ec, IsDeleted)
    IN  IF d # None THEN d ELSE Position(ec, IsIndentOne)

DeletedEnd(ec) ==
    LET o == Position(ec, IsIndentOne)
    IN  IF o = None THEN Len(ec) ELSE o

\* the second filter of a category: the leaf's text occurs in
\* existing_changes[start..end]; false when start or end is None
InSection(ec, start, end, e) ==
    /\ start # None
    /\ end # None
    /\ \E i \in (start + 1)..end : ec[i][1] = e[1]

\* existing_changes[start..end] is evaluated for a leaf with start > end
SectionPanics(ec, start, end) ==
    /\ \E i \in 1..Len(ec) : IsLeaf(ec[i])
    /\ start # None
    /\ end # None
    /\ start > end

First(e) == e[1]

Carried(ec, start, end) ==
    LET Keep(e) == IsLeaf(e) /\ InSection(ec, start, end, e)
    IN  Map(SelectSeq(ec, Keep), First)

added(ec, cp) ==
    Dedup(Sort(Carried(ec, Position(ec, IsAdded), AddedEnd(ec)) \o Map(cp[1], Wrap)))

modified(ec, cp) ==
    Dedup(Sort(Carried(ec, Position(ec, IsModified), ModifiedEnd(ec)) \o Map(cp[2], Wrap)))

deleted(ec, cp) ==
    Dedup(Sort(Carried(ec, Position(ec, IsDeleted), DeletedEnd(ec)) \o Map(cp[3], Wrap)))

AsLeaf(l) == <<l, 3>>

Section(header, leaves) ==
    IF leaves = <<>> THEN <<>> ELSE <<<<header, 2>>>> \o Map(leaves, AsLeaf)

AllEmpty(cp) == cp[1] = <<>> /\ cp[2] = <<>> /\ cp[3] = <<>>

all_changes(ec, cp) ==
    IF AllEmpty(cp) THEN <<>>
    ELSE Section("### Added", added(ec, cp))
         \o Section("### Modified", modified(ec, cp))
         \o Section("### Deleted", deleted(ec, cp))

new_entries(contents, version, cp) ==
    <<<<full_version_string(version), 1>>>>
    \o all_changes(existing_changes(contents, version), cp)

insert_position(contents) == changed_pages_index(contents) + 1

\* the run panics: a slice whose start lies behind its end, or an insert
\* behind the end of the drained contents
MergePanics(contents, version, cp) ==
    LET ec == existing_changes(contents, version)
    IN  /\ ~AllEmpty(cp)
        /\ \/ SectionPanics(ec, Position(ec, IsAdded), AddedEnd(ec))
           \/ SectionPanics(ec, Position(ec, IsModified), ModifiedEnd(ec))
           \/ SectionPanics(ec, Position(ec, IsDeleted), DeletedEnd(ec))

InsertPanics(contents, version) ==
    insert_position(contents) > Len(Drained(contents, version))

Panics(contents, version, cp) ==
    MergePanics(contents, version, cp) \/ InsertPanics(contents, version)

\* page.contents when sync_version reaches its write (no panic on the way)
Reconcile(contents, version, cp) ==
    LET rest == Drained(contents, version)
        at == insert_position(contents)
    IN  Slice(rest, 0, at) \o new_entries(contents, version, cp)
        \o Slice(rest, at, Len(rest))

(***************************************************************************)
(* The runs of `svlmd sync --version`                                      *)
(***************************************************************************)
MaxLen == 4
MaxRuns == 3

\* version.txt; the page of the version is pages/1.0.0.md
Version == "1.0.0"

\* Utc::now().format("%Y-%m-%d")
Today == "2026-01-01"

\* the entries of the pages the merge is applied to: the section marker, the
\* heading of the current version and of another one, a heading that names
\* no version, two category headers and a leaf
Alphabet ==
    { <<"# Changed Pages", 0>>,
      <<"## [[1.0.0]]", 1>>,
      <<"## [[1.0.0-rc.1]]", 1>>,
      <<"## Notes", 1>>,
      <<"### Added", 2>>,
      <<"### Modified", 2>>,
      <<"[[Alice]]", 3>> }

RECURSIVE SeqsUpTo(_)
SeqsUpTo(n) ==
    IF n = 0 THEN {<<>>}
    ELSE LET shorter == SeqsUpTo(n - 1)
         IN  shorter \cup {Append(s, a) : s \in {t \in shorter : Len(t) = n - 1},
                                          a \in Alphabet}

InitPages == SeqsUpTo(MaxLen)

\* what git reports, in the order of the paths: the files of two pages
\* (pages/Bob.md, pages/Bob/A.md), or two files that name one page
\* (pages/Bob/A.md, pages/Bob___A.md)
StatusOrders == { <<"Bob", "Bob/A">>, <<"Bob/A", "Bob/A">> }

\* get_changed_pages: every reported file falls in at most one category
\* (cat[i] = 0: in none), and each category keeps the order of the report
Categorised(order, cat) ==
    [c \in 1..3 |-> LET In(i) == cat[i] = c
                        Name(i) == order[i]
                    IN  Map(SelectSeq([i \in 1..Len(order) |-> i], In), Name)]

ChangeSets ==
    UNION { {Categorised(order, cat) : cat \in [1..Len(order) -> 0..3]}
            : order \in StatusOrders }

\* the page sync_version creates when the version has none (main.rs:137-152)
Skeleton ==
    write_page(<<<<"tags", "Version">>, <<"released-date", Today>>>>,
               <<<<"# Summary", 0>>, <<"", 0>>, <<"# Changed Pages", 0>>>>)

\* the Version page the run ends with (main.rs:306-313)
VersionIndex ==
    write_page(<<<<"icon", "tag">>, <<"exclude-from-graph-view", "true">>>>, <<>>)

\* a run starts from the stored page, or from the skeleton it creates first
Stored == IF file = <<>> THEN Skeleton ELSE file[1]

\* the variables of the runs, of the outline text and of the titles while
\* a specification does not use them
SyncIdle ==
    /\ file = <<>>
    /\ version_file = <<>>
    /\ page = <<>>
    /\ page_properties = <<>>
    /\ changed_pages = <<<<>>, <<>>, <<>>>>
    /\ result = <<>>
    /\ runs = 0

OutlineIdle == outline_in = <<>> /\ outline = "" /\ reparsed = <<>> /\ again = ""

TitleIdle == title = "" /\ path = "" /\ back = ""

IndentIdle == spaces = 0 /\ plain = "" /\ level = 0

Init ==
    /\ SyncIdle
    /\ OutlineIdle
    /\ TitleIdle
    /\ IndentIdle
    /\ status = "init"

\* one run of sync_version (main.rs:108-316) with the change-set cp, the
\* stored page read as `read`
SyncVersion(read, cp) ==
    /\ runs < MaxRuns
    /\ page' = read.contents
    /\ page_properties' = read.properties
    /\ changed_pages' = cp
    /\ runs' = runs + 1
    /\ IF Panics(read.contents, Version, cp)
       THEN /\ status' = "panic"
            /\ result' = <<>>
            /\ file' = <<Stored>>
            /\ UNCHANGED version_file
       ELSE /\ status' = "done"
            /\ result' = Reconcile(read.contents, Version, cp)
            /\ file' = <<write_page(read.properties, result')>>
            /\ version_file' = <<VersionIndex>>
    /\ UNCHANGED <<outlineVars, titleVars, indentVars>>

Next ==
    LET read == read_page(Stored)
    IN  \E cp \in ChangeSets : SyncVersion(read, cp)

Spec == Init /\ [][Next]_vars

(***************************************************************************)
(* The merge alone (main.rs:157-300), on any page contents                 *)
(***************************************************************************)
MergeInit ==
    /\ file = <<>>
    /\ version_file = <<>>
    /\ page \in InitPages
    /\ page_properties = <<>>
    /\ changed_pages = <<<<>>, <<>>, <<>>>>
    /\ result = <<>>
    /\ status = "read"
    /\ runs = 0
    /\ OutlineIdle
    /\ TitleIdle
    /\ IndentIdle

Merge(cp) ==
    /\ status = "read"
    /\ changed_pages' = cp
    /\ IF Panics(page, Version, cp)
       THEN status' = "panic" /\ result' = <<>>
       ELSE status' = "done" /\ result' = Reconcile(page, Version, cp)
    /\ UNCHANGED <<file, version_file, page, page_properties, runs, outlineVars, titleVars, indentVars>>

MergeNext == \E cp \in ChangeSets : Merge(cp)

SpecMerge == MergeInit /\ [][MergeNext]_vars

(***************************************************************************)
(* The outline text: write_page's content block and from_plain             *)
(***************************************************************************)
MaxOutline == 2

\* texts: empty, plain, with an inner space, with a bullet of its own, with
\* a trailing and with a leading space
OutlineTexts == {"", "x", "x y", "- x", "x ", " x"}

\* indent levels of the u8: none, one, and the first whose 4*indent spaces
\* pass 255
OutlineIndents == {0, 1, 64}

RECURSIVE OutlinesUpTo(_)
OutlinesUpTo(n) ==
    IF n = 0 THEN {<<>>}
    ELSE LET shorter == OutlinesUpTo(n - 1)
         IN  shorter \cup {Append(s, <<t, i>>) :
                               s \in {q \in shorter : Len(q) = n - 1},
                               t \in OutlineTexts, i \in OutlineIndents}

OutlineInit ==
    /\ SyncIdle
    /\ TitleIdle
    /\ IndentIdle
    /\ outline_in \in OutlinesUpTo(MaxOutline)
    /\ outline = ""
    /\ reparsed = <<>>
    /\ again = ""
    /\ status = "contents"

Render ==
    /\ status = "contents"
    /\ outline' = WriteContents(outline_in)
    /\ status' = "rendered"
    /\ UNCHANGED <<syncVars, titleVars, indentVars, outline_in, reparsed, again>>

Parse ==
    /\ status = "rendered"
    /\ reparsed' = from_plain(outline)
    /\ status' = "parsed"
    /\ UNCHANGED <<syncVars, titleVars, indentVars, outline_in, outline, again>>

Rerender ==
    /\ status = "parsed"
    /\ again' = WriteContents(reparsed)
    /\ status' = "rerendered"
    /\ UNCHANGED <<syncVars, titleVars, indentVars, outline_in, outline, reparsed>>

OutlineNext == Render \/ Parse \/ Rerender

SpecOutline == OutlineInit /\ [][OutlineNext]_vars

(***************************************************************************)
(* Titles and paths: title_to_path and get_changed_pages                   *)
(***************************************************************************)
MaxTitle == 4

TitleChars == {"A", "/", "_"}

RECURSIVE TitlesUpTo(_)
TitlesUpTo(n) ==
    IF n = 0 THEN {""}
    ELSE LET shorter == TitlesUpTo(n - 1)
         IN  shorter \cup {t \o ch : t \in {q \in shorter : Len(q) = n - 1},
                                      ch \in TitleChars}

\* title_to_path, below the root: pages/<title with "/" as "___">.md
title_to_path(t) == "pages/" \o Replace(t, "/", "___") \o ".md"

EndsWith(s, p) == Len(s) >= Len(p) /\ SubSeq(s, Len(s) - Len(p) + 1, Len(s)) = p

\* get_changed_pages, the page name of an entry's path (its guard holds)
PageName(p) == Replace(Slice(p, Len("pages/"), Len(p) - Len(".md")), "___", "/")

TitleInit ==
    /\ SyncIdle
    /\ OutlineIdle
    /\ IndentIdle
    /\ title \in TitlesUpTo(MaxTitle)
    /\ path = ""
    /\ back = ""
    /\ status = "title"

\* the page is written: its file lies at title_to_path
WriteTitle ==
    /\ status = "title"
    /\ path' = title_to_path(title)
    /\ status' = "stored"
    /\ UNCHANGED <<syncVars, outlineVars, indentVars, title, back>>

\* git reports the file and get_changed_pages names its page
ReportChanged ==
    /\ status = "stored"
    /\ StartsWith(path, "pages/") /\ EndsWith(path, ".md")
    /\ back' = PageName(path)
    /\ status' = "reported"
    /\ UNCHANGED <<syncVars, outlineVars, indentVars, title, path>>

TitleNext == WriteTitle \/ ReportChanged

SpecTitle == TitleInit /\ [][TitleNext]_vars

(***************************************************************************)
(* Indent levels: count_indentation on the lines from_plain is given       *)
(***************************************************************************)
MaxSpaces == 260

\* the largest indent level of an entry: contents is a Vec<(String, u8)>
U8Max == 255

\* n spaces
Spaces(n) == Repeat("    ", n \div 4) \o Repeat(" ", n % 4)

\* a line of a page file with any number of leading spaces before its bullet,
\* or an entry of any indent level that write_page is to render
IndentInit ==
    /\ SyncIdle
    /\ OutlineIdle
    /\ TitleIdle
    /\ level = 0
    /\ \/ /\ spaces \in 0..MaxSpaces
          /\ plain = Spaces(spaces) \o "- x"
          /\ status = "line"
       \/ /\ spaces \in {4 * k : k \in 0..U8Max}
          /\ plain = ""
          /\ status = "entry"

\* write_page renders the entry ("x", k): 4*k spaces, the bullet, the text
RenderEntry ==
    /\ status = "entry"
    /\ plain' = WriteEntry(<<"x", spaces \div 4>>)
    /\ status' = "written"
    /\ UNCHANGED <<syncVars, outlineVars, titleVars, spaces, level>>

\* from_plain parses the line
ParseLine ==
    /\ status \in {"line", "written"}
    /\ level' = from_plain(plain)[1][2]
    /\ status' = IF status = "line" THEN "line parsed" ELSE "entry parsed"
    /\ UNCHANGED <<syncVars, outlineVars, titleVars, spaces, plain>>

IndentNext == RenderEntry \/ ParseLine

SpecIndent == IndentInit /\ [][IndentNext]_vars

(***************************************************************************)
(* The vocabulary of the properties, stated on contents alone.  Indices    *)
(* are 1-based here and 0 stands for "none".                               *)
(***************************************************************************)
Marker == "# Changed Pages"
Heading == <<"## [[" \o Version \o "]]", 1>>

Least(S) == CHOOSE i \in S : \A j \in S : i <= j

\* where the section marker stands, 0 when the page has none
MarkerAt(c) ==
    LET at == {i \in 1..Len(c) : c[i][1] = Marker}
    IN  IF at = {} THEN 0 ELSE Least(at)

\* where the entry of the current version stands inside the section
EntryAt(c) ==
    LET at == {i \in 1..Len(c) : i >= MarkerAt(c) /\ c[i] = Heading}
    IN  IF at = {} THEN 0 ELSE Least(at)

\* how often the heading of the current version stands in c
HeadingCount(c) == Cardinality({i \in 1..Len(c) : c[i] = Heading})

\* the first index behind the extent of the entry at i: the next indent-1
\* entry whose text starts with `prefix`, or the end of the contents
ExtentEnd(c, i, prefix) ==
    LET at == {j \in (i + 1)..Len(c) : c[j][2] = 1 /\ StartsWith(c[j][1], prefix)}
    IN  IF at = {} THEN Len(c) + 1 ELSE Least(at)

\* the contents outside the extent of the existing entry
Outside(c, prefix) ==
    IF EntryAt(c) = 0 THEN c
    ELSE SubSeq(c, 1, EntryAt(c) - 1)
         \o SubSeq(c, ExtentEnd(c, EntryAt(c), prefix), Len(c))

\* a version entry: the heading, then lines at indent 2 or 3 only
IsBlock(b) ==
    /\ Len(b) >= 1
    /\ b[1] = Heading
    /\ \A i \in 2..Len(b) : b[i][2] \in {2, 3}

\* r without the n entries behind its first k
Without(r, k, n) == SubSeq(r, 1, k) \o SubSeq(r, k + n + 1, Len(r))

CategoryHeader == <<"### Added", "### Modified", "### Deleted">>

\* the headers that end the subsection of category cat
LaterHeaders(cat) == {CategoryHeader[k] : k \in (cat + 1)..3}

\* the lines of the subsection of category cat in the version entry of c: from
\* behind its header to the next later category header or the entry's end
SectionLines(c, cat) ==
    IF EntryAt(c) = 0 THEN <<>>
    ELSE LET e == ExtentEnd(c, EntryAt(c), "## ")
             hs == {h \in (EntryAt(c) + 1)..(e - 1) : c[h] = <<CategoryHeader[cat], 2>>}
         IN  IF hs = {} THEN <<>>
             ELSE LET h == Least(hs)
                      es == {j \in (h + 1)..(e - 1) :
                                c[j][2] = 2 /\ c[j][1] \in LaterHeaders(cat)}
                      end == IF es = {} THEN e ELSE Least(es)
                  IN  SubSeq(c, h + 1, end - 1)

IsRecord(e) == e[2] = 3 /\ StartsWith(e[1], "[[")

\* the leaf records of category cat, in page order
LeafSeq(c, cat) == Map(SelectSeq(SectionLines(c, cat), IsRecord), First)

Range(q) == {q[i] : i \in 1..Len(q)}

Recorded(c, cat) == Range(LeafSeq(c, cat))

Wrapped(ids) == {"[[" \o ids[i] \o "]]" : i \in 1..Len(ids)}

Ascending(q) == \A i \in 1..(Len(q) - 1) : StrLess(q[i], q[i + 1])

\* the ascending sequence without duplicates of the strings of S
SortedDedup(S) ==
    CHOOSE q \in [1..Cardinality(S) -> S] : Range(q) = S /\ Ascending(q)

(***************************************************************************)
(* C1: the merge is idempotent: applied again to its own result with the   *)
(* same version and change-set, it finishes and yields that result.        *)
(***************************************************************************)
C1_Idempotent ==
    status = "done" =>
        /\ ~Panics(result, Version, changed_pages)
        /\ Reconcile(result, Version, changed_pages) = result

(***************************************************************************)
(* C2: when the page has an entry for the version, each category of the    *)
(* regenerated entry holds exactly the sorted, duplicate-free union of the *)
(* leaves the old entry held under it and the wrapped ids of the change-   *)
(* set.  Stated for the pages where the entry is beyond doubt: the marker  *)
(* is there, the heading of the version stands once, directly behind it,   *)
(* and the change-set is not empty.                                        *)
(***************************************************************************)
C2_MergeIsUnion ==
    ( /\ status = "done"
      /\ MarkerAt(page) # 0
      /\ HeadingCount(page) = 1
      /\ EntryAt(page) = MarkerAt(page) + 1
      /\ ~AllEmpty(changed_pages) ) =>
        \A cat \in 1..3 :
            LeafSeq(result, cat)
                = SortedDedup(Recorded(page, cat) \cup Wrapped(changed_pages[cat]))

(***************************************************************************)
(* C3: non-interference.  The result is the page with at most the extent   *)
(* of the existing entry removed and one version entry inserted; the       *)
(* extent ends at the next indent-1 entry starting with `prefix`.          *)
(***************************************************************************)
NonInterference(prefix) ==
    status = "done" =>
        LET kept == {page, Outside(page, prefix)}
        IN  \E k \in 0..(Len(result) - 1) :
                /\ result[k + 1] = Heading
                /\ \E n \in 1..(Len(result) - k) :
                       /\ IsBlock(SubSeq(result, k + 1, k + n))
                       /\ Without(result, k, n) \in kept

C4_Total == status # "panic"

(***************************************************************************)
(* C5: across the runs for one version, the records standing under a       *)
(* category of the version's entry only grow: what stands there in the    *)
(* page a run reads stands there in the page it writes.  Stated for the    *)
(* runs whose change-set is not empty.                                     *)
(***************************************************************************)
C5_RecordsSurvive ==
    (status = "done" /\ ~AllEmpty(changed_pages)) =>
        \A cat \in 1..3 : Recorded(page, cat) \subseteq Recorded(result, cat)

(***************************************************************************)
(* C6: an entry of the version anywhere inside the section is recognised   *)
(* and replaced: a page with the marker and at most one heading of the     *)
(* version, not before the marker, yields a result with exactly one.       *)
(***************************************************************************)
C6_OneEntry ==
    ( /\ status = "done"
      /\ MarkerAt(page) # 0
      /\ HeadingCount(page) <= 1
      /\ \A i \in 1..Len(page) : page[i] = Heading => i >= MarkerAt(page) )
    => HeadingCount(result) = 1

(***************************************************************************)
(* C7: on a page with the marker and no entry of the version, the result   *)
(* is the page with one block inserted directly behind the marker: the     *)
(* heading and, for Added, Modified, Deleted in this order and only where  *)
(* the change-set list is non-empty, the header at indent 2 and the        *)
(* wrapped ids at indent 3, ascending and without duplicates.              *)
(***************************************************************************)
ClaimSection(cat, ids) ==
    IF ids = <<>> THEN <<>>
    ELSE <<<<CategoryHeader[cat], 2>>>> \o Map(SortedDedup(Wrapped(ids)), AsLeaf)

ClaimBlock(cp) ==
    <<Heading>> \o ClaimSection(1, cp[1]) \o ClaimSection(2, cp[2])
    \o ClaimSection(3, cp[3])

NoEntry(c) == \A i \in 1..Len(c) : c[i] # Heading

C7_FirstEntry ==
    (status # "read" /\ MarkerAt(page) # 0 /\ NoEntry(page)) =>
        /\ status = "done"
        /\ result = SubSeq(page, 1, MarkerAt(page)) \o ClaimBlock(changed_pages)
                    \o SubSeq(page, MarkerAt(page) + 1, Len(page))

\* a first entry whose change-set lists two ids in one category, in another
\* order than the block holds them, inserted between the marker and what
\* follows it
C7_Witness ==
    /\ status = "done"
    /\ MarkerAt(page) # 0
    /\ MarkerAt(page) < Len(page)
    /\ NoEntry(page)
    /\ \E cat \in 1..3 :
           /\ Len(changed_pages[cat]) = 2
           /\ LeafSeq(result, cat) # Map(changed_pages[cat], Wrap)
           /\ Recorded(result, cat) = Wrapped(changed_pages[cat])

(***************************************************************************)
(* C10: a page without the marker does not make the merge fail: the new    *)
(* entry is inserted at index 1 and the entry at index 0 stays in place.   *)
(***************************************************************************)
C10_MissingMarker ==
    (status # "read" /\ MarkerAt(page) = 0) =>
        /\ status = "done"
        /\ Len(result) >= 2
        /\ result[1] = page[1]
        /\ result[2] = Heading

(***************************************************************************)
(* C8: the content block write_page renders of any contents is reproduced  *)
(* exactly when it is parsed by from_plain and rendered again.             *)
(***************************************************************************)
C8_RoundTrip == status = "rerendered" => again = outline

(***************************************************************************)
(* C9: the page name get_changed_pages derives of the path title_to_path   *)
(* gives a title is that title.                                            *)
(***************************************************************************)
C9_RoundTrip == status = "reported" => back = title

(***************************************************************************)
(* C11: from_plain gives a line with n leading spaces the indent level     *)
(* n div 4, for every n; so an entry write_page rendered at level k, with  *)
(* 4*k leading spaces, is parsed back at level k, for every k of the u8.   *)
(***************************************************************************)
C11_IndentLevel ==
    status \in {"line parsed", "entry parsed"} => level = spaces \div 4

(***************************************************************************)
(* C12: the page a run wrote is read back as it was written: read_page of  *)
(* the file write_page left returns the properties and the contents the    *)
(* run handed to write_page, so a cycle of read and write adds no entry.   *)
(***************************************************************************)
C12_RoundTrip ==
    status = "done" =>
        read_page(file[1]) = [properties |-> page_properties, contents |-> result]
====
